---- MODULE Spec2Model ----
(***************************************************************************)
(* Model of the ic-kit local replica (ic-kit-runtime/src/replica.rs):      *)
(* the dispatcher task that owns the registry, the per-canister event      *)
(* loops, the watcher tasks of outgoing calls and the external submission  *)
(* surface (CanisterHandle / perform_call / enqueue_request).              *)
(***************************************************************************)
EXTENDS Integers, Sequences, FiniteSets, TLC

\* ------------------------------------------------------------------ bounds
NumPrincipals == 2
MaxAdds == 2
MaxExternal == 1
MaxCalls == 2
MaxCycles == 1

Principals == 1..NumPrincipals
Loops == 1..MaxAdds
MaxReq == MaxExternal + MaxCalls
RequestIds == 1..MaxReq
Cycles == 0..MaxCycles

VARIABLES
    replicaAlive,   \* the dispatcher task of Replica::default is running
    replicaRx,      \* the dispatcher's channel is open: its receiver rx is not being dropped
    rxDraining,     \* the drop of rx has closed the channel and is freeing its messages
    replicaQueue,   \* the mpsc channel of ReplicaMessage (self.sender -> rx)
    canisters,      \* the registry HashMap<Principal, UnboundedSender>; 0 = absent
    addLog,         \* one entry per add_canister call: the id and whether it returned
    pc,             \* position of each canister event loop
    mailbox,        \* the mpsc channel of CanisterMessage of each event loop
    executing,      \* messages whose process_message has begun and not returned
    held,           \* reply senders a canister keeps while its own calls are pending
    nextRequestId,  \* RequestId::new()
    nExt,           \* number of external submissions made
    nCalls,         \* number of outgoing calls produced by canisters
    outCalls,       \* calls returned by process_message that the loop has yet to send
    oneshot,        \* the oneshot channel created with each request
    watcher,        \* the watcher task spawned for each outgoing call
    rejectLog,      \* history: every rejection the dispatcher synthesized, in order
    enqueuedLog,    \* history: every message the dispatcher put in a mailbox, in order
    processedLog    \* history: every message an event loop took from its mailbox, in order

vars == <<replicaAlive, replicaRx, rxDraining, replicaQueue, canisters, addLog, pc, mailbox, executing,
          held, nextRequestId, nExt, nCalls, outCalls, oneshot, watcher,
          rejectLog, enqueuedLog, processedLog>>

\* ------------------------------------------------------------ data shapes
NoOutcome == [kind |-> "None", code |-> "None", cycles_refunded |-> 0, by |-> 0]

NoMessage ==
    [type |-> "None", request_id |-> 0, cycles_available |-> 0,
     cycles_refunded |-> 0, outcome |-> NoOutcome]

\* Message::CustomTask { request_id, task, env }
CustomTask(id, avail, refunded) ==
    [type |-> "CustomTask", request_id |-> id, cycles_available |-> avail,
     cycles_refunded |-> refunded, outcome |-> NoOutcome]

\* Message::Request { request_id, env }
Request(id, avail, refunded) ==
    [type |-> "Request", request_id |-> id, cycles_available |-> avail,
     cycles_refunded |-> refunded, outcome |-> NoOutcome]

\* Message::from(CanisterCall): a Request whose env carries the payment as
\* cycles_available and nothing refunded.
MessageFromCall(call) == Request(call.request_id, call.payment, 0)

\* CallReply::to_message(request_id): the Reply message for the call request_id.
to_message(response, request_id) ==
    [type |-> "Reply", request_id |-> request_id, cycles_available |-> 0,
     cycles_refunded |-> response.cycles_refunded, outcome |-> response]

\* CallReply::Reject { rejection_code: DestinationInvalid, .., cycles_refunded }
RejectDestinationInvalid(refund) ==
    [kind |-> "Reject", code |-> "DestinationInvalid", cycles_refunded |-> refund, by |-> 0]

\* ReplicaMessage
CanisterAdded(id, chan) ==
    [kind |-> "CanisterAdded", canister_id |-> id, channel |-> chan,
     message |-> NoMessage, reply_sender |-> 0]

CanisterRequest(id, msg, sender) ==
    [kind |-> "CanisterRequest", canister_id |-> id, channel |-> 0,
     message |-> msg, reply_sender |-> sender]

CanisterReply(id, msg) ==
    [kind |-> "CanisterReply", canister_id |-> id, channel |-> 0,
     message |-> msg, reply_sender |-> 0]

\* CanisterMessage
CanisterMessage(msg, sender) == [message |-> msg, reply_sender |-> sender]

NoOneshot == [tx |-> "none", value |-> NoOutcome, rx |-> "none", owner |-> "none"]
NoWatcher == [state |-> "none", canister_id |-> 0, request_id |-> 0, rx |-> 0, loop |-> 0]

\* ---------------------------------------------------------------- helpers
\* What the history logs keep of a message: its variant and its request id
\* (for a Reply, the id of the call it answers).
Tag(message) == [type |-> message.type, request_id |-> message.request_id]

SendersIn(q) == {q[i].reply_sender : i \in DOMAIN q} \ {0}

\* Dropping a oneshot::Sender that was never used closes its channel.
CloseSenders(os, S) ==
    [r \in DOMAIN os |->
        IF r \in S /\ os[r].tx = "open" THEN [os[r] EXCEPT !.tx = "closed"] ELSE os[r]]

\* oneshot::Sender::send: stores the value; Err when the receiver is gone.
SendOk(os, r) == os[r].rx = "waiting"
SendValue(os, r, v) == [os EXCEPT ![r].tx = "sent", ![r].value = v]

\* A loop's mailbox still has a live sender: the registry entry or the
\* CanisterAdded message that carries it.
ChannelOpen(l) ==
    \/ \E c \in Principals : canisters[c] = l
    \/ \E i \in DOMAIN replicaQueue :
          replicaQueue[i].kind = "CanisterAdded" /\ replicaQueue[i].channel = l

LoopSpawned(l) == l \in DOMAIN addLog /\ addLog[l].returned
LoopCanister(l) == addLog[l].canister_id

\* ------------------------------------------------------------------- Init
Init ==
    /\ replicaAlive = TRUE
    /\ replicaRx = TRUE
    /\ rxDraining = FALSE
    /\ replicaQueue = <<>>
    /\ canisters = [c \in Principals |-> 0]
    /\ addLog = <<>>
    /\ pc = [l \in Loops |-> "none"]
    /\ mailbox = [l \in Loops |-> <<>>]
    /\ executing = [l \in Loops |-> {}]
    /\ held = [l \in Loops |-> {}]
    /\ nextRequestId = 1
    /\ nExt = 0
    /\ nCalls = 0
    /\ outCalls = [l \in Loops |-> <<>>]
    /\ oneshot = [r \in RequestIds |-> NoOneshot]
    /\ watcher = [r \in RequestIds |-> NoWatcher]
    /\ rejectLog = <<>>
    /\ enqueuedLog = [l \in Loops |-> <<>>]
    /\ processedLog = [l \in Loops |-> <<>>]

\* ------------------------------------------------------ Replica::add_canister
\* Sends CanisterAdded with a fresh mailbox, spawns the event loop and returns
\* the handle; the send panics in the caller only when the dispatcher's
\* receiver is gone.
add_canister(c) ==
    /\ Len(addLog) < MaxAdds
    /\ LET l == Len(addLog) + 1 IN
       IF replicaRx
       THEN /\ replicaQueue' = Append(replicaQueue, CanisterAdded(c, l))
            /\ addLog' = Append(addLog, [canister_id |-> c, returned |-> TRUE])
            /\ pc' = [pc EXCEPT ![l] = "recv"]
       ELSE /\ addLog' = Append(addLog, [canister_id |-> c, returned |-> FALSE])
            /\ UNCHANGED <<replicaQueue, pc>>
    /\ UNCHANGED <<replicaAlive, replicaRx, rxDraining, canisters, mailbox, executing, held,
                   nextRequestId, nExt, nCalls, outCalls, oneshot, watcher, rejectLog,
                   enqueuedLog, processedLog>>

\* --------------------------------------------------- Replica::enqueue_request
\* The submission shared by custom, run_env and perform_call: one
\* CanisterRequest appended to the dispatcher's queue.  future says what
\* became of the oneshot channel of the submission: "none" is reply_sender =
\* None, "kept" a receiver the submitter awaits, "dropped" a receiver the
\* submitter has let go (the future of custom, run_env or perform_call that is
\* dropped once the request is sent).
\* The send panics in the submitter when the dispatcher's receiver is gone.
enqueue_request(c, msg, future) ==
    /\ nExt < MaxExternal
    /\ replicaRx
    /\ LET r == nextRequestId
           s == IF future = "none" THEN 0 ELSE r IN
       /\ replicaQueue' = Append(replicaQueue, CanisterRequest(c, msg, s))
       /\ oneshot' = IF future = "none"
                     THEN oneshot
                     ELSE [oneshot EXCEPT ![r] =
                              [tx |-> "open", value |-> NoOutcome,
                               rx |-> IF future = "kept" THEN "waiting" ELSE "dropped",
                               owner |-> "ext"]]
    /\ nextRequestId' = nextRequestId + 1
    /\ nExt' = nExt + 1
    /\ UNCHANGED <<replicaAlive, replicaRx, rxDraining, canisters, addLog, pc, mailbox, executing, held, nCalls, outCalls, watcher, rejectLog, enqueuedLog, processedLog>>

\* CanisterHandle::custom(f, env).  The dispatcher reads only cycles_available
\* of a CustomTask, so the env is drawn with nothing refunded.
custom(c) ==
    \E avail \in Cycles, future \in {"kept", "dropped"} :
        enqueue_request(c, CustomTask(nextRequestId, avail, 0), future)

\* CanisterHandle::run_env(env)
run_env(c) ==
    \E avail \in Cycles, refunded \in Cycles, future \in {"kept", "dropped"} :
        enqueue_request(c, Request(nextRequestId, avail, refunded), future)

\* Replica::perform_call(call)
perform_call(c) ==
    \E payment \in Cycles, future \in {"kept", "dropped"} :
        enqueue_request(c, MessageFromCall([request_id |-> nextRequestId, callee |-> c,
                                            payment |-> payment]), future)

\* Replica::enqueue_request(canister_id, message, None): a request without an
\* outcome channel.
enqueue_no_reply(c) ==
    enqueue_request(c, Request(nextRequestId, 0, 0), "none")

\* --------------------------------------------- Replica::default (dispatcher)
\* A dispatcher that skips the offending message and goes on.
DispatcherSkips(os) ==
    /\ replicaAlive' = TRUE
    /\ replicaQueue' = Tail(replicaQueue)
    /\ canisters' = canisters
    /\ oneshot' = os
    /\ UNCHANGED <<replicaRx, rxDraining>>

\* A panic of the dispatcher task while it handles the oldest message of its
\* queue: the unwinding drops that message with the senders it carries and
\* then the registry, so every registered mailbox loses its sender.  The
\* receiver of the queue is dropped after them, in drop_rx and drain_rx.
DispatcherPanic(os) ==
    /\ replicaAlive' = FALSE
    /\ replicaQueue' = Tail(replicaQueue)
    /\ canisters' = [c \in Principals |-> 0]
    /\ oneshot' = CloseSenders(os, SendersIn(<<Head(replicaQueue)>>))
    /\ UNCHANGED <<replicaRx, rxDraining>>

\* The end of the unwinding: the drop of the receiver rx begins.  It closes
\* the channel first, so from here on a send to the dispatcher fails; the
\* messages still queued are freed afterwards, one at a time, in drain_rx.
drop_rx ==
    /\ ~replicaAlive
    /\ replicaRx
    /\ replicaRx' = FALSE
    /\ rxDraining' = TRUE
    /\ UNCHANGED <<replicaAlive, replicaQueue, canisters, addLog, pc, mailbox, executing,
                   held, nextRequestId, nExt, nCalls, outCalls, oneshot, watcher,
                   rejectLog, enqueuedLog, processedLog>>

\* The drop of rx frees the oldest message left in the channel, and with it
\* the senders that message carries.  Other tasks run between two messages.
drain_rx ==
    /\ rxDraining
    /\ replicaQueue # <<>>
    /\ replicaQueue' = Tail(replicaQueue)
    /\ oneshot' = CloseSenders(oneshot, SendersIn(<<Head(replicaQueue)>>))
    /\ UNCHANGED <<replicaAlive, replicaRx, rxDraining, canisters, addLog, pc, mailbox,
                   executing, held, nextRequestId, nExt, nCalls, outCalls, watcher,
                   rejectLog, enqueuedLog, processedLog>>

\* The drop of rx returns.  A send that was accepted while the receiver was
\* being dropped is not found by the drain: the messages still in the channel
\* stay there, since Replica.sender keeps the channel alive, so they are never
\* handled and the senders they carry are never dropped.
drain_end ==
    /\ rxDraining
    /\ rxDraining' = FALSE
    /\ UNCHANGED <<replicaAlive, replicaRx, replicaQueue, canisters, addLog, pc, mailbox,
                   executing, held, nextRequestId, nExt, nCalls, outCalls, oneshot,
                   watcher, rejectLog, enqueuedLog, processedLog>>


\* canisters.contains_key(&canister_id)
contains_key(c) == canisters[c] # 0

\* The receiver of a mailbox is gone once its event loop has finished.
MailboxClosed(l) == pc[l] \in {"ended", "panicked"}

\* ReplicaMessage::CanisterAdded
replica_CanisterAdded ==
    /\ replicaAlive
    /\ replicaQueue # <<>>
    /\ Head(replicaQueue).kind = "CanisterAdded"
    /\ LET m == Head(replicaQueue) IN
       IF contains_key(m.canister_id)
       THEN DispatcherPanic(oneshot)
       ELSE /\ canisters' = [canisters EXCEPT ![m.canister_id] = m.channel]
            /\ replicaQueue' = Tail(replicaQueue)
            /\ UNCHANGED <<replicaAlive, replicaRx, rxDraining, oneshot>>
    /\ UNCHANGED <<addLog, pc, mailbox, executing, held, nextRequestId, nExt,
                   nCalls, outCalls, watcher, rejectLog, enqueuedLog, processedLog>>

\* The refund of the synthesized rejection, by message variant.
refund_of(message) ==
    IF message.type = "CustomTask" THEN message.cycles_available
    ELSE IF message.type = "Request" THEN message.cycles_refunded
    ELSE 0

\* ReplicaMessage::CanisterRequest
replica_CanisterRequest ==
    /\ replicaAlive
    /\ replicaQueue # <<>>
    /\ Head(replicaQueue).kind = "CanisterRequest"
    /\ LET m == Head(replicaQueue)
           chan == canisters[m.canister_id]
           cycles_refunded == refund_of(m.message) IN
       IF contains_key(m.canister_id)
       THEN IF MailboxClosed(chan)
            THEN /\ DispatcherPanic(oneshot)
                 /\ UNCHANGED <<mailbox, enqueuedLog, rejectLog>>
            ELSE /\ mailbox' = [mailbox EXCEPT ![chan] =
                                   Append(@, CanisterMessage(m.message, m.reply_sender))]
                 /\ enqueuedLog' = [enqueuedLog EXCEPT ![chan] = Append(@, Tag(m.message))]
                 /\ replicaQueue' = Tail(replicaQueue)
                 /\ UNCHANGED <<replicaAlive, replicaRx, rxDraining, canisters, oneshot, rejectLog>>
       ELSE /\ IF m.reply_sender = 0 \/ ~SendOk(oneshot, m.reply_sender)
               THEN /\ DispatcherPanic(oneshot)
                    /\ UNCHANGED rejectLog
               ELSE /\ oneshot' = SendValue(oneshot, m.reply_sender,
                                            RejectDestinationInvalid(cycles_refunded))
                    /\ rejectLog' = Append(rejectLog,
                                       [request_id |-> m.message.request_id,
                                        attached |-> m.message.cycles_available,
                                        refund |-> cycles_refunded])
                    /\ replicaQueue' = Tail(replicaQueue)
                    /\ UNCHANGED <<replicaAlive, replicaRx, rxDraining, canisters>>
            /\ UNCHANGED <<mailbox, enqueuedLog>>
    /\ UNCHANGED <<addLog, pc, executing, held, nextRequestId, nExt, nCalls, outCalls,
                   watcher, processedLog>>

\* ReplicaMessage::CanisterReply
replica_CanisterReply ==
    /\ replicaAlive
    /\ replicaQueue # <<>>
    /\ Head(replicaQueue).kind = "CanisterReply"
    /\ LET m == Head(replicaQueue)
           chan == canisters[m.canister_id] IN
       IF ~contains_key(m.canister_id) \/ MailboxClosed(chan)
       THEN /\ DispatcherPanic(oneshot)
            /\ UNCHANGED <<mailbox, enqueuedLog>>
       ELSE /\ mailbox' = [mailbox EXCEPT ![chan] = Append(@, CanisterMessage(m.message, 0))]
            /\ enqueuedLog' = [enqueuedLog EXCEPT ![chan] = Append(@, Tag(m.message))]
            /\ replicaQueue' = Tail(replicaQueue)
            /\ UNCHANGED <<replicaAlive, replicaRx, rxDraining, canisters, oneshot>>
    /\ UNCHANGED <<addLog, pc, executing, held, nextRequestId, nExt, nCalls, outCalls,
                   watcher, rejectLog, processedLog>>

\* ------------------------------------- Replica::add_canister (event loop)
HeldSenders(l) == {h.sender : h \in held[l]}

\* A loop that takes the next message without awaiting process_message.
LoopCanRecvEager(l) == pc[l] \in {"recv", "await"}

\* A loop that waits for the outcomes of its calls before the next message.
LoopCanRecvBlocking(l) ==
    pc[l] = "recv" /\ \A k \in RequestIds : ~(watcher[k].loop = l /\ watcher[k].state = "waiting")

\* The loop is at rx.recv().await: the previous process_message has returned
\* and its calls have been sent.
LoopCanRecv(l) == pc[l] = "recv"

\* A mailbox that yields its newest message first.
RecvIndexNewest(q) == Len(q)

\* rx.recv() yields the oldest message of the mailbox.
RecvIndex(q) == 1

RemoveAt(q, i) == [j \in 1..(Len(q) - 1) |-> IF j < i THEN q[j] ELSE q[j + 1]]

\* while let Some(message) = rx.recv().await { canister.process_message(..)
loop_recv(l) ==
    /\ LoopSpawned(l)
    /\ LoopCanRecv(l)
    /\ mailbox[l] # <<>>
    /\ LET i == RecvIndex(mailbox[l])
           m == mailbox[l][i] IN
       /\ mailbox' = [mailbox EXCEPT ![l] = RemoveAt(@, i)]
       /\ executing' = [executing EXCEPT ![l] = @ \cup {m}]
       /\ processedLog' = [processedLog EXCEPT ![l] = Append(@, Tag(m.message))]
    /\ pc' = [pc EXCEPT ![l] = "await"]
    /\ UNCHANGED <<replicaAlive, replicaRx, rxDraining, replicaQueue, canisters, addLog, held,
                   nextRequestId, nExt, nCalls, outCalls, oneshot, watcher, rejectLog,
                   enqueuedLog>>

\* rx.recv() returns None once every sender is gone and the mailbox is empty:
\* the loop ends and the canister is dropped with the senders it kept.
loop_end(l) ==
    /\ LoopSpawned(l)
    /\ LoopCanRecv(l)
    /\ mailbox[l] = <<>>
    /\ ~ChannelOpen(l)
    /\ pc' = [pc EXCEPT ![l] = "ended"]
    /\ oneshot' = CloseSenders(oneshot, HeldSenders(l))
    /\ held' = [held EXCEPT ![l] = {}]
    /\ UNCHANGED <<replicaAlive, replicaRx, rxDraining, replicaQueue, canisters, addLog, mailbox, executing,
                   nextRequestId, nExt, nCalls, outCalls, watcher, rejectLog,
                   enqueuedLog, processedLog>>

\* ---------------------------------------------- Canister::process_message
\* The payment a canister attaches to its calls.
Payments == {0}

\* The calls a message's processing may return: callee and payment are the
\* canister's choice, the request ids are fresh.
CallLists(n) ==
    {[i \in 1..n |-> [request_id |-> nextRequestId + i - 1, callee |-> f[i][1], payment |-> f[i][2]]] :
        f \in [1..n -> Principals \X Payments]}

\* The outcomes a canister can give to a request: it accepts the cycles and
\* replies, or rejects and refunds them.
Answers(id, avail) ==
    {[kind |-> "Reply", code |-> "None", cycles_refunded |-> 0, by |-> id]}

\* The request a message continues: the message itself, or for a Reply the
\* held request that is waiting for it.
Continued(l, m) ==
    IF m.message.type = "Reply"
    THEN {h \in held[l] : m.message.request_id \in h.pending}
    ELSE IF m.reply_sender = 0 THEN {}
    ELSE {[sender |-> m.reply_sender, request_id |-> m.message.request_id,
           cycles_available |-> m.message.cycles_available, pending |-> {}]}

\* What process_message does with the request it continues: keep its reply
\* sender while calls of the request are pending, or answer it.
Decisions(h, pending) ==
    (IF pending # {} THEN {NoOutcome} ELSE {}) \cup Answers(h.request_id, h.cycles_available)

\* The canister's kept senders after process_message.
HeldAfter(l, m, ids, d) ==
    LET cont == Continued(l, m)
        rest == {h \in held[l] : h \notin cont} IN
    IF cont = {} \/ d # NoOutcome THEN rest
    ELSE LET h == CHOOSE x \in cont : TRUE IN
         rest \cup {[h EXCEPT !.pending = (h.pending \ {m.message.request_id}) \cup ids]}

\* The oneshot channels after process_message.
OneshotAfter(l, m, d) ==
    LET cont == Continued(l, m) IN
    IF cont = {} \/ d = NoOutcome THEN oneshot
    ELSE SendValue(oneshot, (CHOOSE x \in cont : TRUE).sender, d)

\* ----------------------------- Replica::add_canister (for call in perform_call)
\* A watcher that takes the id of the newest call of the replica for every
\* call.
WatcherRequestIdShared(call) == nextRequestId - 1

\* The request id the watcher of a call captures.
WatcherRequestId(call) == call.request_id

\* A watcher that addresses the Reply to the callee of its call.
WatcherOriginCallee(l, call) == call.callee

\* The identity the watcher addresses the Reply to: canister_id of the loop
\* that issued the call.
WatcherOrigin(l, call) == LoopCanister(l)

\* A for loop that takes the calls of the list last to first.
NextCallLast(calls) == Len(calls)

\* for call in perform_call: the position of the call sent next, the calls
\* being taken in list order.
NextCall(calls) == 1

\* The CanisterRequest sent for a call.
CallRequest(call) == CanisterRequest(call.callee, MessageFromCall(call), call.request_id)

\* The oneshot channel and the watcher task created for a call.
SpawnChannel(os, call) ==
    [os EXCEPT ![call.request_id] =
        [tx |-> "open", value |-> NoOutcome, rx |-> "waiting", owner |-> "watcher"]]

SpawnWatcher(l, call) ==
    [watcher EXCEPT ![call.request_id] =
        [state |-> "waiting", canister_id |-> WatcherOrigin(l, call),
         request_id |-> WatcherRequestId(call), rx |-> call.request_id, loop |-> l]]

\* canister.process_message(message, reply_sender).await: the canister may
\* answer the request it continues and returns the calls to perform.
process_message(l) ==
    /\ pc[l] = "await"
    /\ \E m \in executing[l], n \in 0..(MaxCalls - nCalls) :
       \E calls \in CallLists(n) :
          LET ids == {calls[i].request_id : i \in 1..n}
              cont == Continued(l, m)
              pending == IF cont = {} THEN ids
                         ELSE ((CHOOSE x \in cont : TRUE).pending \ {m.message.request_id}) \cup ids
              ds == IF cont = {} THEN {NoOutcome}
                    ELSE Decisions(CHOOSE x \in cont : TRUE, pending) IN
          \E d \in ds :
             /\ executing' = [executing EXCEPT ![l] = @ \ {m}]
             /\ nCalls' = nCalls + n
             /\ nextRequestId' = nextRequestId + n
             /\ oneshot' = OneshotAfter(l, m, d)
             /\ held' = [held EXCEPT ![l] = HeldAfter(l, m, ids, d)]
             /\ outCalls' = [outCalls EXCEPT ![l] = calls]
             /\ pc' = [pc EXCEPT ![l] = IF calls = <<>> THEN "recv" ELSE "send"]
    /\ UNCHANGED <<replicaAlive, replicaRx, rxDraining, replicaQueue, canisters, addLog, mailbox, nExt,
                   watcher, rejectLog, enqueuedLog, processedLog>>

\* One iteration of for call in perform_call: a fresh oneshot channel, the
\* CanisterRequest sent to the dispatcher and the watcher spawned.  The send
\* panics the loop when the dispatcher's receiver is gone, which drops the
\* mailbox and the canister with the calls not yet sent.
send_call(l) ==
    /\ pc[l] = "send"
    /\ LET i == NextCall(outCalls[l])
           call == outCalls[l][i]
           rest == RemoveAt(outCalls[l], i) IN
       IF replicaRx
       THEN /\ replicaQueue' = Append(replicaQueue, CallRequest(call))
            /\ oneshot' = SpawnChannel(oneshot, call)
            /\ watcher' = SpawnWatcher(l, call)
            /\ outCalls' = [outCalls EXCEPT ![l] = rest]
            /\ pc' = [pc EXCEPT ![l] = IF rest = <<>> THEN "recv" ELSE "send"]
            /\ UNCHANGED <<mailbox, held>>
       ELSE /\ pc' = [pc EXCEPT ![l] = "panicked"]
            /\ oneshot' = CloseSenders(oneshot, SendersIn(mailbox[l]) \cup HeldSenders(l))
            /\ mailbox' = [mailbox EXCEPT ![l] = <<>>]
            /\ held' = [held EXCEPT ![l] = {}]
            /\ outCalls' = [outCalls EXCEPT ![l] = <<>>]
            /\ UNCHANGED <<replicaQueue, watcher>>
    /\ UNCHANGED <<replicaAlive, replicaRx, rxDraining, canisters, addLog, executing, nextRequestId, nExt,
                   nCalls, rejectLog, enqueuedLog, processedLog>>

\* A watcher that stays on its channel after forwarding the outcome.
WatcherStays(w) == w

\* The watcher task ends once it has sent the CanisterReply.
WatcherEnds(w) == [w EXCEPT !.state = "done"]

\* The watcher task: rx.await.expect(..), to_message, send CanisterReply.
watcher_task(k) ==
    /\ watcher[k].state = "waiting"
    /\ oneshot[watcher[k].rx].tx \in {"sent", "closed"}
    /\ LET w == watcher[k]
           response == oneshot[w.rx].value
           message == to_message(response, w.request_id) IN
       IF oneshot[w.rx].tx = "sent" /\ replicaRx
       THEN /\ replicaQueue' = Append(replicaQueue, CanisterReply(w.canister_id, message))
            /\ watcher' = [watcher EXCEPT ![k] = WatcherEnds(w)]
       ELSE /\ watcher' = [watcher EXCEPT ![k].state = "panicked"]
            /\ UNCHANGED replicaQueue
    /\ UNCHANGED <<replicaAlive, replicaRx, rxDraining, canisters, addLog, pc, mailbox, executing, held,
                   nextRequestId, nExt, nCalls, outCalls, oneshot, rejectLog, enqueuedLog, processedLog>>

\* ------------------------------------------------------------------- Next
Next ==
    \/ \E c \in Principals : add_canister(c)
    \/ \E c \in Principals : custom(c)
    \/ \E c \in Principals : run_env(c)
    \/ \E c \in Principals : perform_call(c)
    \/ \E c \in Principals : enqueue_no_reply(c)
    \/ replica_CanisterAdded
    \/ replica_CanisterRequest
    \/ replica_CanisterReply
    \/ drop_rx
    \/ drain_rx
    \/ drain_end
    \/ \E l \in Loops : loop_recv(l)
    \/ \E l \in Loops : loop_end(l)
    \/ \E l \in Loops : process_message(l)
    \/ \E l \in Loops : send_call(l)
    \/ \E k \in RequestIds : watcher_task(k)

\* The steps of the replica's own tasks: the dispatcher, the event loops and
\* the watchers.
TaskNext ==
    \/ replica_CanisterAdded
    \/ replica_CanisterRequest
    \/ replica_CanisterReply
    \/ drop_rx
    \/ drain_rx
    \/ drain_end
    \/ \E l \in Loops : loop_recv(l)
    \/ \E l \in Loops : loop_end(l)
    \/ \E l \in Loops : process_message(l)
    \/ \E l \in Loops : send_call(l)
    \/ \E k \in RequestIds : watcher_task(k)

Spec == Init /\ [][Next]_vars

TypeOK ==
    /\ replicaAlive \in BOOLEAN
    /\ replicaRx \in BOOLEAN
    /\ replicaAlive => replicaRx
    /\ rxDraining \in BOOLEAN
    /\ rxDraining => ~replicaRx
    /\ Len(addLog) <= MaxAdds
    /\ nExt <= MaxExternal
    /\ nCalls <= MaxCalls

\* ================================================================ claims
RECURSIVE SumOf(_, _)
SumOf(log, field) ==
    IF log = <<>> THEN 0 ELSE Head(log)[field] + SumOf(Tail(log), field)

\* C1: every rejection synthesized for an unroutable message refunds exactly
\* the cycles attached to that message, and over a run the refunds of
\* unroutable calls sum to the cycles attached to them.
C1_RefundEqualsAttached ==
    /\ \A i \in DOMAIN rejectLog :
          /\ rejectLog[i].refund = rejectLog[i].attached
          /\ oneshot[rejectLog[i].request_id].value =
                RejectDestinationInvalid(rejectLog[i].attached)
    /\ SumOf(rejectLog, "refund") = SumOf(rejectLog, "attached")

\* C2: an add_canister call for an identity that an earlier add_canister call
\* already registered never returns normally.
C2_SecondAddNeverReturns ==
    \A i \in DOMAIN addLog, j \in DOMAIN addLog :
        (i < j /\ addLog[i].canister_id = addLog[j].canister_id) => ~addLog[j].returned

\* C3: a registered identity keeps the mailbox it was registered with: no
\* message the dispatcher handles later replaces or removes it.
C3_RegistryStable ==
    [][\A c \in Principals : canisters[c] # 0 => canisters'[c] = canisters[c]]_vars

\* The process_message invocations in progress for canister identity c.
InProgress(c) ==
    {<<l, m>> \in Loops \X UNION {executing[l] : l \in Loops} :
        LoopSpawned(l) /\ LoopCanister(l) = c /\ m \in executing[l]}

\* C4: at most one process_message invocation is in progress for a canister
\* at any time.
C4_OneInvocationAtATime ==
    \A c \in Principals : Cardinality(InProgress(c)) <= 1

\* A canister is processing one message while another one, submitted
\* concurrently, waits in its mailbox.
C4_Witness ==
    \E l \in Loops : executing[l] # {} /\ mailbox[l] # <<>>

IsPrefix(p, q) == Len(p) <= Len(q) /\ \A i \in DOMAIN p : p[i] = q[i]

\* C5: each event loop processes its mailbox in the order of enqueueing,
\* replies included: what it has processed is a prefix of what was enqueued,
\* and what waits in the mailbox is what follows that prefix.
C5_FifoProcessing ==
    \A l \in Loops :
        /\ IsPrefix(processedLog[l], enqueuedLog[l])
        /\ \A i \in DOMAIN mailbox[l] :
              Tag(mailbox[l][i].message) = enqueuedLog[l][Len(processedLog[l]) + i]

\* A loop that has already processed a message has two or more messages
\* waiting in its mailbox, a Reply for one of its own calls among them.
C5_Witness ==
    \E l \in Loops :
        /\ processedLog[l] # <<>>
        /\ Len(mailbox[l]) >= 2
        /\ \E i \in DOMAIN mailbox[l] :
              /\ mailbox[l][i].message.type = "Reply"
              /\ watcher[mailbox[l][i].message.request_id].loop = l

\* The Reply messages for call k that the dispatcher put in mailbox l.
Delivered(k, l) ==
    {i \in DOMAIN enqueuedLog[l] :
        enqueuedLog[l][i] = [type |-> "Reply", request_id |-> k]}

\* C6: every call issued by an event loop gets exactly one Reply delivered to
\* the mailbox of its issuer; stated at the end of the dispatcher's run, past
\* which nothing is delivered.
C6_EveryCallAnswered ==
    ~replicaAlive =>
        \A k \in RequestIds :
            watcher[k].state # "none" => Cardinality(Delivered(k, watcher[k].loop)) = 1

\* C7: at most one Reply carrying a given request id is ever enqueued, over
\* all mailboxes.
C7_AtMostOneReply ==
    \A k \in RequestIds :
        Cardinality({<<l, i>> \in Loops \X (1..(2 * MaxReq)) : i \in Delivered(k, l)}) <= 1

\* Two calls have had their Reply delivered.
C7_Witness ==
    \E k1 \in RequestIds, k2 \in RequestIds, l1 \in Loops, l2 \in Loops :
        k1 # k2 /\ Delivered(k1, l1) # {} /\ Delivered(k2, l2) # {}

\* The Reply messages in flight: handed to the dispatcher, waiting in a
\* mailbox or being processed.
RepliesInFlight ==
    {replicaQueue[i].message : i \in {j \in DOMAIN replicaQueue :
                                         replicaQueue[j].kind = "CanisterReply"}}
    \cup UNION {{mailbox[l][i].message : i \in DOMAIN mailbox[l]} : l \in Loops}
    \cup UNION {{m.message : m \in executing[l]} : l \in Loops}

\* C8: a Reply carries the request id of one call together with the outcome
\* sent on that call's own oneshot channel, unmodified.
C8_ReplyMatchesItsCall ==
    \A msg \in RepliesInFlight :
        msg.type = "Reply" =>
            /\ watcher[msg.request_id].state = "done"
            /\ oneshot[watcher[msg.request_id].rx].tx = "sent"
            /\ watcher[msg.request_id].rx = msg.request_id
            /\ msg.outcome = oneshot[msg.request_id].value
            /\ msg.outcome.by \in {0, msg.request_id}

\* A canister has two calls that were outstanding together, answered by
\* different parties, and the Reply of the later one is in flight.
C8_Witness ==
    \E k1 \in RequestIds, k2 \in RequestIds :
        /\ k1 < k2
        /\ watcher[k1].state # "none"
        /\ watcher[k1].loop = watcher[k2].loop
        /\ oneshot[k1].value # oneshot[k2].value
        /\ \E msg \in RepliesInFlight : msg.type = "Reply" /\ msg.request_id = k2
        /\ ~\E i \in DOMAIN enqueuedLog[watcher[k1].loop] :
               enqueuedLog[watcher[k1].loop][i].type = "Reply"

\* The request at position i of the dispatcher's queue is for an identity
\* that is not registered and will not be when the request is handled.
Unroutable(i) ==
    /\ replicaQueue[i].kind = "CanisterRequest"
    /\ ~contains_key(replicaQueue[i].canister_id)
    /\ \A j \in 1..(i - 1) :
          ~(replicaQueue[j].kind = "CanisterAdded"
            /\ replicaQueue[j].canister_id = replicaQueue[i].canister_id)

\* C9: the outcome channel of a request for an unregistered destination, whose
\* submitter is waiting on it, is never closed without a value: it stays open
\* until the rejection is sent on it.
C9_UnroutableIsRejected ==
    [][\A i \in DOMAIN replicaQueue :
          LET s == replicaQueue[i].reply_sender IN
          (Unroutable(i) /\ s # 0 /\ oneshot[s].owner = "ext" /\ oneshot[s].rx = "waiting")
             => \/ oneshot'[s].tx = "open"
                \/ /\ oneshot'[s].tx = "sent"
                   /\ oneshot'[s].value.kind = "Reject"]_vars

\* C10: handling a request for an unregistered destination never stops the
\* dispatcher, and the messages queued behind it stay queued for routing.
C10_UnroutableAbortsNothing ==
    [][(replicaAlive /\ replicaQueue # <<>> /\ Unroutable(1))
          => /\ replicaAlive'
             /\ \/ IsPrefix(replicaQueue, replicaQueue')
                \/ IsPrefix(Tail(replicaQueue), replicaQueue')]_vars

\* The tags of the messages enqueued in mailbox l.
Enqueued(l) == {enqueuedLog[l][i] : i \in DOMAIN enqueuedLog[l]}
Processed(l) == {processedLog[l][i] : i \in DOMAIN processedLog[l]}

RequestTag(k) == [type |-> "Request", request_id |-> k]
ReplyTag(k) == [type |-> "Reply", request_id |-> k]

\* Loop lA has call k1 outstanding; the loop lB that received k1 keeps its
\* reply sender while its own call k2, which arrived in lA's mailbox, is
\* pending.
Reentrant(lA, lB, k1, k2) ==
    /\ watcher[k1].state = "waiting"
    /\ watcher[k1].loop = lA
    /\ watcher[k2].loop = lB
    /\ \E h \in held[lB] : h.sender = k1 /\ k2 \in h.pending
    /\ RequestTag(k2) \in Enqueued(lA)

\* C11: while its call k1 is outstanding and the callee's nested call k2 has
\* come back to it, a loop is not blocked: the Reply of k1 is not ahead of the
\* nested Request, the loop takes the nested Request as soon as it is the
\* oldest message and the loop has finished the message before it (its
\* process_message has returned and its calls are sent), and with a running
\* dispatcher the chain always has a next step.
C11_ReentrancyNoDeadlock ==
    \A lA \in Loops, lB \in Loops, k1 \in RequestIds, k2 \in RequestIds :
        Reentrant(lA, lB, k1, k2) =>
            /\ ReplyTag(k1) \notin Enqueued(lA)
            /\ (/\ mailbox[lA] # <<>>
                /\ Tag(Head(mailbox[lA]).message) = RequestTag(k2)
                /\ executing[lA] = {}
                /\ outCalls[lA] = <<>>) => ENABLED loop_recv(lA)
            /\ replicaAlive => ENABLED TaskNext

\* Loop lA has processed the nested call of another canister while its own
\* call to that canister is still outstanding.
C11_Witness ==
    \E lA \in Loops, lB \in Loops, k1 \in RequestIds, k2 \in RequestIds :
        /\ lA # lB
        /\ Reentrant(lA, lB, k1, k2)
        /\ RequestTag(k2) \in Processed(lA)
        /\ executing[lA] = {}
        /\ oneshot[k2].tx = "sent"

\* C13: a Reply is only ever enqueued in the mailbox of the loop that issued
\* the call it answers.
C13_ReplyToIssuer ==
    \A l \in Loops : \A i \in DOMAIN enqueuedLog[l] :
        enqueuedLog[l][i].type = "Reply" =>
            /\ watcher[enqueuedLog[l][i].request_id].loop = l
            /\ watcher[enqueuedLog[l][i].request_id].state = "done"

\* A loop got the Reply of a call that another canister received, and the
\* Reply of a call it made to itself.
C13_Witness ==
    \E l \in Loops, l2 \in Loops, k1 \in RequestIds, k2 \in RequestIds :
        /\ l # l2
        /\ ReplyTag(k1) \in Enqueued(l) /\ RequestTag(k1) \in Enqueued(l2)
        /\ ReplyTag(k2) \in Enqueued(l) /\ RequestTag(k2) \in Enqueued(l)

\* The step is the dispatcher's handling of the oldest message of its queue:
\* no other task takes messages from the queue or stops the dispatcher.
DispatcherHandlesHead ==
    /\ replicaAlive
    /\ replicaQueue # <<>>
    /\ (replicaQueue' = Tail(replicaQueue) \/ ~replicaAlive')

\* C14: when the dispatcher handles a request for an unregistered destination
\* it leaves the registry, every mailbox and every event loop as they are, and
\* sends one DestinationInvalid rejection on the request's outcome channel.
C14_UnroutableOnlyRejects ==
    [][(DispatcherHandlesHead /\ Unroutable(1))
          => LET s == Head(replicaQueue).reply_sender IN
             /\ canisters' = canisters
             /\ mailbox' = mailbox
             /\ enqueuedLog' = enqueuedLog
             /\ \A l \in Loops : ChannelOpen(l) => ChannelOpen(l)'
             /\ s # 0
             /\ oneshot'[s].tx = "sent"
             /\ oneshot'[s].value.kind = "Reject"
             /\ oneshot'[s].value.code = "DestinationInvalid"
             /\ \A r \in RequestIds \ {s} : oneshot'[r] = oneshot[r]]_vars

\* The requests k1 and k2 have the same submitter: the same event loop, or
\* both come from outside the replica.
SameSubmitter(k1, k2) == watcher[k1].loop = watcher[k2].loop

\* The calls of a list carry increasing request ids and a submitter sends one
\* request after the other, so of two requests of one submitter k1 was sent to
\* the dispatcher before k2 exactly when k1 < k2.
SubmittedBefore(k1, k2) == k1 < k2

\* Requests of one submitter are in a mailbox in the order they were sent.
SubmitterOrderKept ==
    \A l \in Loops : \A i \in DOMAIN enqueuedLog[l], j \in DOMAIN enqueuedLog[l] :
        (/\ i < j
         /\ enqueuedLog[l][i].type # "Reply" /\ enqueuedLog[l][j].type # "Reply"
         /\ SameSubmitter(enqueuedLog[l][i].request_id, enqueuedLog[l][j].request_id))
            => SubmittedBefore(enqueuedLog[l][i].request_id, enqueuedLog[l][j].request_id)

\* C15: the dispatcher's queue only grows at its end and loses its oldest
\* message, a mailbox only ever gets the oldest message of the queue, appended
\* at its end, so two requests for one destination are enqueued in the order
\* they entered the queue; in particular the calls of one list are in the
\* destination's mailbox in list order.
C15_SubmissionOrderKept ==
    [][/\ \/ IsPrefix(replicaQueue, replicaQueue')
          \/ replicaQueue' = Tail(replicaQueue)
       /\ \A l \in Loops :
             enqueuedLog'[l] # enqueuedLog[l]
                => /\ replicaQueue # <<>>
                   /\ replicaQueue' = Tail(replicaQueue)
                   /\ canisters[Head(replicaQueue).canister_id] = l
                   /\ enqueuedLog'[l] = Append(enqueuedLog[l], Tag(Head(replicaQueue).message))
       /\ SubmitterOrderKept']_vars

\* The two calls returned by the only process_message of one loop were both
\* enqueued in the mailbox of another loop.
C15_Witness ==
    \E l \in Loops, l2 \in Loops, k1 \in RequestIds, k2 \in RequestIds :
        /\ l # l2 /\ k1 # k2
        /\ watcher[k1].loop = l /\ watcher[k2].loop = l
        /\ Len(processedLog[l]) = 1 /\ executing[l] = {}
        /\ RequestTag(k1) \in Enqueued(l2) /\ RequestTag(k2) \in Enqueued(l2)

\* The watcher tasks that are running.
LiveWatchers == {k \in RequestIds : watcher[k].state = "waiting"}

\* The calls that a loop sent to the dispatcher and whose Reply no watcher has
\* handed to the dispatcher so far.
CallsNotHandedOver ==
    {k \in RequestIds : oneshot[k].owner = "watcher" /\ watcher[k].state # "done"}

\* C16: there are as many live watcher tasks as calls whose Reply has not yet
\* been handed to the dispatcher.
C16_WatcherPerPendingCall ==
    Cardinality(LiveWatchers) = Cardinality(CallsNotHandedOver)

\* C17: every CanisterReply that the dispatcher is going to handle names a
\* registered identity whose mailbox is open, the one of the loop that issued
\* the call: canisters.get(&canister_id).unwrap() cannot fail.
C17_ReplyOriginRegistered ==
    replicaAlive =>
        \A i \in DOMAIN replicaQueue :
            replicaQueue[i].kind = "CanisterReply" =>
                /\ contains_key(replicaQueue[i].canister_id)
                /\ ~MailboxClosed(canisters[replicaQueue[i].canister_id])
                /\ canisters[replicaQueue[i].canister_id]
                      = watcher[replicaQueue[i].message.request_id].loop

\* The dispatcher is about to handle a CanisterReply while the identity of
\* its origin has been registered a second time.
C17_Witness ==
    /\ replicaAlive
    /\ replicaQueue # <<>>
    /\ Head(replicaQueue).kind = "CanisterReply"
    /\ \E i \in DOMAIN addLog, j \in DOMAIN addLog :
          /\ i < j
          /\ addLog[i].canister_id = Head(replicaQueue).canister_id
          /\ addLog[j].canister_id = Head(replicaQueue).canister_id

\* The request at position i of the dispatcher's queue was sent after an
\* add_canister for its destination had returned: the CanisterAdded of that
\* registration is not behind it in the queue.
AddedBefore(i) ==
    \E l \in DOMAIN addLog :
        /\ addLog[l].returned
        /\ addLog[l].canister_id = replicaQueue[i].canister_id
        /\ ~\E j \in DOMAIN replicaQueue :
              j > i /\ replicaQueue[j].kind = "CanisterAdded" /\ replicaQueue[j].channel = l

\* The identity was given to add_canister at most once.
RegisteredOnce(c) ==
    Cardinality({l \in DOMAIN addLog : addLog[l].canister_id = c}) <= 1

\* C18: when the dispatcher handles a request, a request sent after
\* add_canister of its destination returned (the identity being registered
\* once) is enqueued in the destination's mailbox and not rejected; a request
\* sent before add_canister of its destination is not enqueued and gets the
\* DestinationInvalid rejection.
C18_RegistrationBeforeUse ==
    [][(DispatcherHandlesHead /\ Head(replicaQueue).kind = "CanisterRequest")
          => LET m == Head(replicaQueue)
                 s == m.reply_sender IN
             /\ (AddedBefore(1) /\ RegisteredOnce(m.canister_id))
                   => /\ contains_key(m.canister_id)
                      /\ enqueuedLog' = [enqueuedLog EXCEPT ![canisters[m.canister_id]] =
                                            Append(@, Tag(m.message))]
                      /\ rejectLog' = rejectLog
             /\ ~AddedBefore(1)
                   => /\ enqueuedLog' = enqueuedLog
                      /\ s # 0
                      /\ oneshot'[s].tx = "sent"
                      /\ oneshot'[s].value.code = "DestinationInvalid"]_vars

\* No request was submitted without a reply sender or with a receiver that
\* was let go: the dispatcher's unwrap and expect on the not-found branch
\* cannot have failed.
NoUnanswerableRequest ==
    \A r \in RequestIds :
        /\ oneshot[r].rx # "dropped"
        /\ r < nextRequestId => oneshot[r].owner # "none"

\* The dispatcher has handled the CanisterAdded of a second registration of
\* an identity, and stopped on it.
DuplicateHandled ==
    /\ ~replicaAlive
    /\ NoUnanswerableRequest
    /\ \E i \in DOMAIN addLog, j \in DOMAIN addLog :
          /\ i < j
          /\ addLog[i].canister_id = addLog[j].canister_id
          /\ addLog[i].returned /\ addLog[j].returned

\* The outcome channels that receive their value in this step.
Delivering == {r \in RequestIds : oneshot[r].tx # "sent" /\ oneshot'[r].tx = "sent"}

\* C19 as stated: after the dispatcher has handled a duplicate registration,
\* no message is enqueued in any mailbox and no outcome value is delivered on
\* any outcome channel.
C19_NothingAfterDuplicate ==
    [][DuplicateHandled => (enqueuedLog' = enqueuedLog /\ Delivering = {})]_vars

\* C19, amended: handling a CanisterAdded for a registered identity stops the
\* dispatcher; once the dispatcher has stopped it stays stopped, no message is
\* enqueued in any mailbox, the dispatcher delivers no outcome, and a request
\* waiting in its queue gets no outcome value.  An outcome value is only
\* delivered by a canister, for a message that was enqueued in its mailbox.
C19_DuplicateStopsDispatcher ==
    [][/\ (/\ DispatcherHandlesHead
           /\ Head(replicaQueue).kind = "CanisterAdded"
           /\ contains_key(Head(replicaQueue).canister_id))
          => /\ ~replicaAlive'
             /\ enqueuedLog' = enqueuedLog
             /\ Delivering = {}
       /\ ~replicaAlive
          => /\ ~replicaAlive'
             /\ enqueuedLog' = enqueuedLog
             /\ rejectLog' = rejectLog
             /\ \A r \in SendersIn(replicaQueue) : oneshot'[r].tx # "sent"
             /\ \A r \in Delivering :
                   /\ oneshot'[r].value.by # 0
                   /\ \E l \in Loops : \E i \in DOMAIN enqueuedLog[l] :
                         enqueuedLog[l][i].request_id = oneshot'[r].value.by]_vars

\* After the dispatcher stopped on a duplicate registration, an event loop is
\* processing a message of its mailbox whose submitter waits for the outcome.
C19_Witness ==
    /\ DuplicateHandled
    /\ \E l \in Loops : \E m \in executing[l] :
          /\ m.reply_sender # 0
          /\ oneshot[m.reply_sender].tx = "open"
          /\ oneshot[m.reply_sender].rx = "waiting"

====
